---- MODULE Spec2Model ----
(***************************************************************************)
(* examples/ai_agent_demo.py: the MCPGLSPAgent JSON-RPC client and the     *)
(* demo script that drives it against an external MCP-GLSP server.         *)
(*                                                                         *)
(* A state is a point where the script is blocked in an HTTP call or is    *)
(* between two statements.  Python strings that the code takes apart are   *)
(* sequences of tokens; dicts are records whose DOMAIN is the key set.     *)
(***************************************************************************)
EXTENDS Integers, Sequences, FiniteSets, TLC

VARIABLES
    pc,          \* where the caller is: "main", "health", "workflow", "prompts", "end", "free"
    health,      \* the health check: "unsent", "outstanding", "200", "not200", "raised"
    ip,          \* index of the current call of the running demo function
    agentNo,     \* how many MCPGLSPAgent objects were constructed; the last one is current
    agent,       \* fields of the current MCPGLSPAgent
    call,        \* the agent method in progress
    ret,         \* how the last agent method ended, until the caller consumes it
    network,     \* HTTP requests sent whose response has not arrived
    sent,        \* every POST issued so far, in order
    lastSend,    \* the response and the outcome of the last finished _send_request
    last,        \* the last finished agent method: arguments, flag before, outcome
    memo,        \* an earlier finished agent method, kept for comparison
    diagram_id,  \* local of demonstrate_ai_workflow
    handler,     \* which except clause of the main block ran
    ops,         \* number of methods invoked by the free caller
    conf         \* docs/source/conf.py: its inputs and the names it has bound so far

vars == <<pc, health, ip, agentNo, agent, call, ret, network, sent, lastSend, last, memo,
          diagram_id, handler, ops, conf>>

(***************************************************************************)
(* Bounds                                                                  *)
(***************************************************************************)
MaxTextLen == 2
\* The greatest number of tags `git tag` prints.
MaxTags == 2
\* The greatest length of a DOCS_VERSION made of the characters v . 0 1.
MaxVersionLen == 4
\* The greatest number of lines of a file extract_reqs reads.
MaxEntries == 2
MaxOps == 3

(***************************************************************************)
(* Python values                                                           *)
(***************************************************************************)
None == <<>>
Some(v) == <<v>>
EmptyDict == [k \in {} |-> 0]

NoCall == [op |-> "none"]
NoConf == [stage |-> "none"]
NoRet == [kind |-> "none"]
Return(v) == [kind |-> "return", value |-> v]
Raise(e) == [kind |-> "raise", exc |-> e]

\* The delimiter "ID: " is one token; no other token contains a part of it.
Tokens == {"ID: ", "d"}
Texts == UNION {[1..n -> Tokens] : n \in 0..MaxTextLen}

\* Results a server may put under "result", by what the callers read of them.
Result(shape, text) == [shape |-> shape, text |-> text]
EmptyResult == Result("empty", <<>>)

(***************************************************************************)
(* The server: responses to a POST and to the health check                 *)
(***************************************************************************)
ResultsFor(payload) ==
    {EmptyResult} \cup
    CASE payload.method = "initialize" ->
             {Result("serverInfo", <<>>), Result("serverInfoNoVersion", <<>>)}
      [] payload.method = "initialized" -> {}
      [] payload.method = "tools/call" ->
             IF payload.params.name = "create_diagram"
             THEN {Result("content", t) : t \in Texts}
             ELSE {Result("content", <<"d">>)}
      [] payload.method = "resources/read" ->
             {Result("modelJson", <<>>), Result("validationJson", <<>>),
              Result("badJson", <<>>)}
      [] OTHER -> {Result("messages", <<>>)}

Objects(payload) ==
    LET errs == {EmptyDict, [error |-> "null"], [error |-> "failure"]}
        ress == {EmptyDict} \cup {[result |-> r] : r \in ResultsFor(payload)}
    IN  {e @@ r : e \in errs, r \in ress}

Bodies(payload) ==
    {[kind |-> "invalid"], [kind |-> "array"], [kind |-> "null"]}
    \cup {[kind |-> "object", obj |-> o] : o \in Objects(payload)}

Responses(payload) ==
    {[transport |-> t] : t \in {"ConnectionError", "Timeout"}}
    \cup {[transport |-> "ok", status_code |-> s, body |-> b] :
              s \in {200, 500}, b \in Bodies(payload)}

HealthResponses ==
    {[transport |-> t] : t \in {"ConnectionError", "Timeout"}}
    \cup {[transport |-> "ok", status_code |-> s] : s \in {200, 503}}

(***************************************************************************)
(* MCPGLSPAgent                                                            *)
(***************************************************************************)
\* __init__
MCPGLSPAgent == [server_url |-> "http://127.0.0.1:3000", request_id |-> 0,
                 initialized |-> FALSE]

\* As Payload, with "params" left out when params is falsy.
PayloadTruthy(method, params, id) ==
    [jsonrpc |-> "2.0", method |-> method, id |-> id]
    @@ (IF params # None /\ params[1] # EmptyDict
        THEN [params |-> params[1]] ELSE EmptyDict)

\* _send_request up to the POST: the id, the payload, the request on the wire.
Payload(method, params, id) ==
    [jsonrpc |-> "2.0", method |-> method, id |-> id]
    @@ (IF params # None THEN [params |-> params[1]] ELSE EmptyDict)

\* As PostRequest, with the id read before the increment.
PostRequestStaleId(method, params) ==
    [verb |-> "POST", url |-> <<agent.server_url, "/mcp/rpc">>, agent |-> agentNo,
     payload |-> Payload(method, params, agent.request_id)]

PostRequest(method, params) ==
    [verb |-> "POST", url |-> <<agent.server_url, "/mcp/rpc">>, agent |-> agentNo,
     payload |-> Payload(method, params, agent.request_id + 1)]

\* net and log are the network and the log the request is added to.
_send_request(method, params, net, log) ==
    /\ agent' = [agent EXCEPT !.request_id = @ + 1]
    /\ network' = net \cup {PostRequest(method, params)}
    /\ sent' = Append(log, PostRequest(method, params) @@ [outcome |-> "outstanding"])

\* As SendRequestResult, with the error test on the value of "error".
SendRequestResultTruthy(resp) ==
    IF resp.transport # "ok" THEN Raise(resp.transport)
    ELSE IF resp.status_code # 200 THEN Raise("HTTP")
    ELSE IF resp.body.kind = "invalid" THEN Raise("JSONDecodeError")
    ELSE IF resp.body.kind = "null" THEN Raise("TypeError")
    ELSE IF resp.body.kind = "array" THEN Raise("AttributeError")
    ELSE IF "error" \in DOMAIN resp.body.obj /\ resp.body.obj.error # "null"
         THEN Raise("MCP Error")
    ELSE IF "result" \in DOMAIN resp.body.obj THEN Return(resp.body.obj.result)
    ELSE Return(EmptyResult)

\* _send_request from the response on: what it raises or returns.
SendRequestResult(resp) ==
    IF resp.transport # "ok" THEN Raise(resp.transport)
    ELSE IF resp.status_code # 200 THEN Raise("HTTP")
    ELSE IF resp.body.kind = "invalid" THEN Raise("JSONDecodeError")
    ELSE IF resp.body.kind = "null" THEN Raise("TypeError")
    ELSE IF resp.body.kind = "array" THEN Raise("AttributeError")
    ELSE IF "error" \in DOMAIN resp.body.obj THEN Raise("MCP Error")
    ELSE IF "result" \in DOMAIN resp.body.obj THEN Return(resp.body.obj.result)
    ELSE Return(EmptyResult)

\* The log with the outcome of the request req filled in.
Mark(log, req, outcome) ==
    [i \in DOMAIN log |->
        IF log[i].outcome = "outstanding" /\ log[i].agent = req.agent
           /\ log[i].payload = req.payload
        THEN [log[i] EXCEPT !.outcome = outcome] ELSE log[i]]

Outcome(out) == IF out.kind = "return" THEN "ok" ELSE "raised"

\* A finished method, as remembered in last and memo.
Finished(c, resp, out) ==
    [op |-> c.op, args |-> c.args, init_before |-> c.init_before,
     posted |-> resp # None, resp |-> resp, out |-> out]

InitializeParams ==
    [protocolVersion |-> "2024-11-05",
     capabilities |-> [experimental |-> EmptyDict, sampling |-> EmptyDict],
     clientInfo |-> [name |-> "AI Workflow Agent", version |-> "1.0.0"]]

\* initialize(), up to its first POST.
initialize ==
    /\ _send_request("initialize", Some(InitializeParams), network, sent)
    /\ call' = [op |-> "initialize", stage |-> 1, args |-> EmptyDict,
                init_before |-> agent.initialized]
    /\ UNCHANGED <<ret, last, lastSend>>

\* As Guarded, with the guard on request_id instead of initialized.
GuardedById(op, args, method, params) ==
    IF agent.request_id = 0
    THEN /\ ret' = Raise("Agent not initialized")
         /\ last' = Some(Finished([op |-> op, args |-> args,
                                   init_before |-> agent.initialized],
                                  None, Raise("Agent not initialized")))
         /\ UNCHANGED <<agent, network, sent, call, lastSend>>
    ELSE /\ _send_request(method, Some(params), network, sent)
         /\ call' = [op |-> op, stage |-> 1, args |-> args,
                     init_before |-> agent.initialized]
         /\ UNCHANGED <<ret, last, lastSend>>

\* As Guarded, without the guard.
GuardedNever(op, args, method, params) ==
    /\ _send_request(method, Some(params), network, sent)
    /\ call' = [op |-> op, stage |-> 1, args |-> args,
                init_before |-> agent.initialized]
    /\ UNCHANGED <<ret, last, lastSend>>

\* The guard shared by call_tool, read_resource and get_prompt, then their POST.
Guarded(op, args, method, params) ==
    IF ~agent.initialized
    THEN /\ ret' = Raise("Agent not initialized")
         /\ last' = Some(Finished([op |-> op, args |-> args, init_before |-> FALSE],
                             None, Raise("Agent not initialized")))
         /\ UNCHANGED <<agent, network, sent, call, lastSend>>
    ELSE /\ _send_request(method, Some(params), network, sent)
         /\ call' = [op |-> op, stage |-> 1, args |-> args, init_before |-> TRUE]
         /\ UNCHANGED <<ret, last, lastSend>>

call_tool(tool_name, arguments) ==
    Guarded("call_tool", [name |-> tool_name, arguments |-> arguments],
            "tools/call", [name |-> tool_name, arguments |-> arguments])

read_resource(uri) ==
    Guarded("read_resource", [uri |-> uri], "resources/read", [uri |-> uri])

\* arguments is None or Some(dict); an empty dict is falsy.
get_prompt(prompt_name, arguments) ==
    Guarded("get_prompt", [name |-> prompt_name, arguments |-> arguments],
            "prompts/get",
            IF arguments # None /\ arguments[1] # EmptyDict
            THEN [name |-> prompt_name, arguments |-> arguments[1]]
            ELSE [name |-> prompt_name])

\* result['serverInfo']['name'], result['serverInfo']['version']
ServerInfo(result) == IF result.shape = "serverInfo" THEN "none" ELSE "KeyError"

\* The response to "initialize" arrives: initialize() reads serverInfo and
\* sends "initialized", or raises.
InitializeResponse ==
    /\ call.op = "initialize" /\ call.stage = 1
    /\ \E req \in network : \E resp \in Responses(req.payload) :
        LET out == SendRequestResult(resp)
            exc == IF out.kind = "raise" THEN out.exc ELSE ServerInfo(out.value)
        IN  /\ req.verb = "POST"
            /\ lastSend' = Some([resp |-> resp, out |-> out])
            /\ IF exc = "none"
               THEN /\ _send_request("initialized", Some(EmptyDict), network \ {req},
                                     Mark(sent, req, "ok"))
                    /\ call' = [call EXCEPT !.stage = 2]
                    /\ UNCHANGED <<ret, last>>
               ELSE /\ network' = network \ {req}
                    /\ sent' = Mark(sent, req, IF out.kind = "raise" THEN "raised"
                                                                      ELSE "rejected")
                    /\ call' = NoCall
                    /\ ret' = Raise(exc)
                    /\ last' = Some(Finished(call, Some(resp), Raise(exc)))
                    /\ UNCHANGED agent
    /\ UNCHANGED <<pc, health, ip, agentNo, memo, diagram_id, handler, ops>>
    /\ UNCHANGED conf

\* self.initialized = True is reached only when the second _send_request
\* returned.
InitializedFlagEarly(old, out) == TRUE

InitializedFlag(old, out) == IF out.kind = "return" THEN TRUE ELSE old

\* The response to "initialized" arrives: initialize() sets the flag and returns.
InitializedResponse ==
    /\ call.op = "initialize" /\ call.stage = 2
    /\ \E req \in network : \E resp \in Responses(req.payload) :
        LET out == SendRequestResult(resp)
            res == IF out.kind = "raise" THEN out ELSE Return(EmptyResult)
        IN  /\ req.verb = "POST"
            /\ lastSend' = Some([resp |-> resp, out |-> out])
            /\ network' = network \ {req}
            /\ sent' = Mark(sent, req, Outcome(out))
            /\ agent' = [agent EXCEPT !.initialized = InitializedFlag(@, out)]
            /\ call' = NoCall
            /\ ret' = res
            /\ last' = Some(Finished(call, Some(resp), res))
    /\ UNCHANGED <<pc, health, ip, agentNo, memo, diagram_id, handler, ops>>
    /\ UNCHANGED conf

\* As MethodResponse, with a request that raised sent once more.
MethodResponseRetry ==
    /\ call.op \in {"call_tool", "read_resource", "get_prompt"}
    /\ \E req \in network : \E resp \in Responses(req.payload) :
        LET out == SendRequestResult(resp)
        IN  /\ req.verb = "POST"
            /\ lastSend' = Some([resp |-> resp, out |-> out])
            /\ IF out.kind = "raise" /\ call.stage = 1
               THEN /\ _send_request(req.payload.method, Some(req.payload.params),
                                     network \ {req}, Mark(sent, req, "raised"))
                    /\ call' = [call EXCEPT !.stage = 2]
                    /\ UNCHANGED <<ret, last>>
               ELSE /\ network' = network \ {req}
                    /\ sent' = Mark(sent, req, Outcome(out))
                    /\ call' = NoCall
                    /\ ret' = out
                    /\ last' = Some(Finished(call, Some(resp), out))
                    /\ UNCHANGED agent
    /\ UNCHANGED <<pc, health, ip, agentNo, memo, diagram_id, handler, ops>>
    /\ UNCHANGED conf

\* The response to a tools/call, resources/read or prompts/get arrives: the
\* method returns what _send_request returns, or lets its exception through.
MethodResponse ==
    /\ call.op \in {"call_tool", "read_resource", "get_prompt"}
    /\ \E req \in network : \E resp \in Responses(req.payload) :
        LET out == SendRequestResult(resp)
        IN  /\ req.verb = "POST"
            /\ lastSend' = Some([resp |-> resp, out |-> out])
            /\ network' = network \ {req}
            /\ sent' = Mark(sent, req, Outcome(out))
            /\ call' = NoCall
            /\ ret' = out
            /\ last' = Some(Finished(call, Some(resp), out))
            /\ UNCHANGED agent
    /\ UNCHANGED <<pc, health, ip, agentNo, memo, diagram_id, handler, ops>>
    /\ UNCHANGED conf

(***************************************************************************)
(* demonstrate_ai_workflow, demonstrate_ai_prompts                         *)
(***************************************************************************)
\* As SplitLast, with what follows the first delimiter: split("ID: ", 1)[-1].
SplitFirst(text) ==
    IF \E i \in 1..Len(text) : text[i] = "ID: "
    THEN LET i == CHOOSE j \in 1..Len(text) :
                      /\ text[j] = "ID: "
                      /\ \A h \in 1..(j - 1) : text[h] # "ID: "
         IN  SubSeq(text, i + 1, Len(text))
    ELSE text

\* response_text.split("ID: ")[-1]: what follows the last delimiter, or all.
RECURSIVE SplitLast(_)
SplitLast(text) ==
    IF \E i \in 1..Len(text) : text[i] = "ID: "
    THEN IF Head(text) = "ID: " /\ ~\E i \in 2..Len(text) : text[i] = "ID: "
         THEN Tail(text)
         ELSE SplitLast(Tail(text))
    ELSE text

\* As Node, with a tool name the server interface does not have.
NodeAdd(id, nodeType, x, y, label) ==
    [op |-> "call_tool", name |-> "add_node", reads |-> "ignored",
     arguments |-> [diagramId |-> id, nodeType |-> nodeType,
                    position |-> [x |-> x, y |-> y], label |-> label]]

Node(id, nodeType, x, y, label) ==
    [op |-> "call_tool", name |-> "create_node", reads |-> "ignored",
     arguments |-> [diagramId |-> id, nodeType |-> nodeType,
                    position |-> [x |-> x, y |-> y], label |-> label]]

\* The agent calls of demonstrate_ai_workflow in program order; id is diagram_id,
\* reads is what the statements after the call take out of the value returned.
demonstrate_ai_workflow(id) == <<
    [op |-> "initialize", reads |-> "ignored"],
    [op |-> "call_tool", name |-> "create_diagram", reads |-> "content",
     arguments |-> [diagramType |-> "bpmn", name |-> "Order Fulfillment Process"]],
    Node(id, "start-event", 50, 150, "Order Received"),
    Node(id, "task", 200, 150, "Validate Payment"),
    Node(id, "gateway", 350, 150, "Payment Valid?"),
    Node(id, "task", 500, 100, "Check Inventory"),
    Node(id, "task", 500, 200, "Reject Order"),
    Node(id, "task", 650, 100, "Ship Order"),
    Node(id, "end-event", 800, 100, "Order Completed"),
    Node(id, "end-event", 650, 200, "Order Rejected"),
    [op |-> "call_tool", name |-> "apply_layout", reads |-> "ignored",
     arguments |-> [diagramId |-> id, algorithm |-> "hierarchical"]],
    [op |-> "read_resource", uri |-> <<"diagram://model/">> \o id,
     reads |-> "modelJson"],
    [op |-> "read_resource", uri |-> <<"diagram://validation/">> \o id,
     reads |-> "validationJson"],
    [op |-> "get_prompt", name |-> "analyze_diagram", reads |-> "messages",
     arguments |-> Some([diagram_id |-> id, focus |-> "performance"])],
    [op |-> "call_tool", name |-> "export_diagram", reads |-> "ignored",
     arguments |-> [diagramId |-> id, format |-> "svg"]] >>

\* prompts_to_demo, after the initialize() that precedes the loop.
demonstrate_ai_prompts == <<
    [op |-> "initialize", reads |-> "ignored"],
    [op |-> "get_prompt", name |-> "generate_workflow", reads |-> "messages",
     arguments |-> Some([description |->
                             "Create a customer support ticket resolution process",
                         style |-> "bpmn"])],
    [op |-> "get_prompt", name |-> "add_error_handling", reads |-> "messages",
     arguments |-> Some([diagram_id |-> <<"example-id">>,
                         error_types |-> "validation,system,business"])],
    [op |-> "get_prompt", name |-> "convert_diagram", reads |-> "messages",
     arguments |-> Some([diagram_id |-> <<"example-id">>, target_type |-> "uml"])] >>

\* As Program, with the first create_node ahead of create_diagram.
ProgramNodeFirst ==
    IF pc = "workflow"
    THEN LET w == demonstrate_ai_workflow(diagram_id)
         IN  [k \in DOMAIN w |-> IF k = 2 THEN w[3] ELSE IF k = 3 THEN w[2] ELSE w[k]]
    ELSE demonstrate_ai_prompts

Program == IF pc = "workflow" THEN demonstrate_ai_workflow(diagram_id)
           ELSE demonstrate_ai_prompts

\* The subscripts and json.loads applied to a returned value: the exception
\* they raise, or "none".
Use(value, reads) ==
    CASE reads = "ignored" -> "none"
      [] reads \in {"modelJson", "validationJson"} ->
             IF value.shape = reads THEN "none"
             ELSE IF value.shape \in {"modelJson", "validationJson"} THEN "KeyError"
             ELSE IF value.shape = "badJson" THEN "JSONDecodeError"
             ELSE "KeyError"
      [] OTHER -> IF value.shape = reads THEN "none" ELSE "KeyError"

\* As Call, without waiting for the call in progress to end.
CallAsync ==
    /\ pc \in {"workflow", "prompts"}
    /\ LET step == Program[ip]
       IN  \/ step.op = "initialize" /\ initialize
           \/ step.op = "call_tool" /\ call_tool(step.name, step.arguments)
           \/ step.op = "read_resource" /\ read_resource(step.uri)
           \/ step.op = "get_prompt" /\ get_prompt(step.name, step.arguments)
    /\ UNCHANGED <<pc, health, ip, agentNo, memo, diagram_id, handler, ops>>
    /\ UNCHANGED conf

\* The demo function calls the agent method of its current statement.
Call ==
    /\ pc \in {"workflow", "prompts"}
    /\ call = NoCall /\ ret = NoRet
    /\ LET step == Program[ip]
       IN  \/ step.op = "initialize" /\ initialize
           \/ step.op = "call_tool" /\ call_tool(step.name, step.arguments)
           \/ step.op = "read_resource" /\ read_resource(step.uri)
           \/ step.op = "get_prompt" /\ get_prompt(step.name, step.arguments)
    /\ UNCHANGED <<pc, health, ip, agentNo, memo, diagram_id, handler, ops>>
    /\ UNCHANGED conf

(***************************************************************************)
(* The main block                                                          *)
(***************************************************************************)
ExceptionClasses ==
    {"ConnectionError", "Timeout", "HTTP", "MCP Error", "JSONDecodeError",
     "TypeError", "AttributeError", "KeyError", "Agent not initialized"}

\* As except_clause, with the second clause taking only what requests and
\* _send_request raise themselves.
except_clause_narrow(exc) ==
    IF exc = "ConnectionError" THEN "ConnectionError"
    ELSE IF exc \in {"Timeout", "HTTP", "MCP Error"} THEN "Exception"
    ELSE "uncaught"

\* The except clause that takes an exception leaving the try block.
except_clause(exc) ==
    IF exc = "ConnectionError" THEN "ConnectionError"
    ELSE IF exc \in ExceptionClasses THEN "Exception"
    ELSE "uncaught"

HealthRequest == [verb |-> "GET", url |-> <<"http://127.0.0.1:3000", "/health">>]

\* requests.get(".../health", timeout=5)
Main ==
    /\ pc = "main"
    /\ network' = network \cup {HealthRequest}
    /\ health' = "outstanding"
    /\ pc' = "health"
    /\ UNCHANGED <<ip, agentNo, agent, call, ret, sent, lastSend, last, memo,
                   diagram_id, handler, ops>>
    /\ UNCHANGED conf

\* As HealthResponse, with the demonstrations run on any status.
HealthResponseAnyStatus ==
    /\ pc = "health"
    /\ \E resp \in HealthResponses :
        /\ network' = network \ {HealthRequest}
        /\ IF resp.transport # "ok"
           THEN /\ health' = "raised"
                /\ handler' = except_clause(resp.transport)
                /\ pc' = "end"
                /\ UNCHANGED <<ip, agentNo, agent>>
           ELSE /\ health' = IF resp.status_code = 200 THEN "200" ELSE "not200"
                /\ pc' = "workflow"
                /\ ip' = 1
                /\ agentNo' = agentNo + 1
                /\ agent' = MCPGLSPAgent
                /\ UNCHANGED handler
    /\ UNCHANGED <<call, ret, sent, lastSend, last, memo, diagram_id, ops>>
    /\ UNCHANGED conf

\* The health check ends: on 200 demonstrate_ai_workflow starts with a new agent.
HealthResponse ==
    /\ pc = "health"
    /\ \E resp \in HealthResponses :
        /\ network' = network \ {HealthRequest}
        /\ IF resp.transport # "ok"
           THEN /\ health' = "raised"
                /\ handler' = except_clause(resp.transport)
                /\ pc' = "end"
                /\ UNCHANGED <<ip, agentNo, agent>>
           ELSE IF resp.status_code = 200
           THEN /\ health' = "200"
                /\ pc' = "workflow"
                /\ ip' = 1
                /\ agentNo' = agentNo + 1
                /\ agent' = MCPGLSPAgent
                /\ UNCHANGED handler
           ELSE /\ health' = "not200"
                /\ pc' = "end"
                /\ UNCHANGED <<ip, agentNo, agent, handler>>
    /\ UNCHANGED <<call, ret, sent, lastSend, last, memo, diagram_id, ops>>
    /\ UNCHANGED conf

\* The log with its last request marked as one whose result the script could
\* not use.
Reject(log) == [log EXCEPT ![Len(log)].outcome = "rejected"]

\* As WorkflowReturn, with an exception of a statement reported and the
\* function going on with its next statement.
WorkflowReturnGoOn ==
    /\ pc = "workflow" /\ ret # NoRet
    /\ LET step == Program[ip]
           exc == IF ret.kind = "raise" THEN ret.exc ELSE Use(ret.value, step.reads)
       IN  /\ sent' = IF exc # "none" /\ ret.kind = "return" THEN Reject(sent) ELSE sent
           /\ diagram_id' = IF exc = "none" /\ step.reads = "content"
                            THEN SplitLast(ret.value.text) ELSE diagram_id
           /\ IF ip < Len(Program)
              THEN /\ ip' = ip + 1
                   /\ UNCHANGED <<pc, agentNo, agent>>
              ELSE /\ pc' = "prompts"
                   /\ ip' = 1
                   /\ agentNo' = agentNo + 1
                   /\ agent' = MCPGLSPAgent
           /\ UNCHANGED handler
    /\ ret' = NoRet
    /\ UNCHANGED <<health, call, network, lastSend, last, memo, ops>>
    /\ UNCHANGED conf

\* A call of demonstrate_ai_workflow ended: an exception leaves the function
\* and the try block; otherwise the next statement runs, and after the last
\* one demonstrate_ai_prompts starts with a new agent.
WorkflowReturn ==
    /\ pc = "workflow" /\ ret # NoRet
    /\ LET step == Program[ip]
           exc == IF ret.kind = "raise" THEN ret.exc ELSE Use(ret.value, step.reads)
       IN  IF exc # "none"
           THEN /\ handler' = except_clause(exc)
                /\ pc' = "end"
                /\ sent' = IF ret.kind = "return" THEN Reject(sent) ELSE sent
                /\ UNCHANGED <<ip, agentNo, agent, diagram_id>>
           ELSE /\ diagram_id' = IF step.reads = "content"
                                 THEN SplitLast(ret.value.text) ELSE diagram_id
                /\ IF ip < Len(Program)
                   THEN /\ ip' = ip + 1
                        /\ UNCHANGED <<pc, agentNo, agent>>
                   ELSE /\ pc' = "prompts"
                        /\ ip' = 1
                        /\ agentNo' = agentNo + 1
                        /\ agent' = MCPGLSPAgent
                /\ UNCHANGED <<handler, sent>>
    /\ ret' = NoRet
    /\ UNCHANGED <<health, call, network, lastSend, last, memo, ops>>
    /\ UNCHANGED conf

\* As loop_next, with the loop staying at the same entry of the list.
loop_stay(i) == i

\* The following statement of prompts_to_demo, or the end of the loop.
loop_next(i) == i + 1

\* As PromptsReturn, without the try statement of the loop body.
PromptsReturnNoTry ==
    /\ pc = "prompts" /\ ret # NoRet
    /\ LET step == Program[ip]
           exc == IF ret.kind = "raise" THEN ret.exc ELSE Use(ret.value, step.reads)
       IN  /\ sent' = IF exc # "none" /\ ret.kind = "return" THEN Reject(sent) ELSE sent
           /\ IF exc # "none"
              THEN /\ handler' = except_clause(exc)
                   /\ pc' = "end"
                   /\ UNCHANGED ip
              ELSE /\ ip' = loop_next(ip)
                   /\ pc' = IF loop_next(ip) > Len(Program) THEN "end" ELSE pc
                   /\ UNCHANGED handler
    /\ ret' = NoRet
    /\ UNCHANGED <<health, agentNo, agent, call, network, lastSend, last, memo,
                   diagram_id, ops>>
    /\ UNCHANGED conf

\* A call of demonstrate_ai_prompts ended: an exception of initialize() leaves
\* the function and the try block of the main block; one of the loop body is
\* caught by the loop's own except clause and the loop goes on.
PromptsReturn ==
    /\ pc = "prompts" /\ ret # NoRet
    /\ LET step == Program[ip]
           exc == IF ret.kind = "raise" THEN ret.exc ELSE Use(ret.value, step.reads)
       IN  /\ sent' = IF exc # "none" /\ ret.kind = "return" THEN Reject(sent) ELSE sent
           /\ IF exc # "none" /\ step.op = "initialize"
              THEN /\ handler' = except_clause(exc)
                   /\ pc' = "end"
                   /\ UNCHANGED ip
              ELSE /\ ip' = loop_next(ip)
                   /\ pc' = IF loop_next(ip) > Len(Program) THEN "end" ELSE pc
                   /\ UNCHANGED handler
    /\ ret' = NoRet
    /\ UNCHANGED <<health, agentNo, agent, call, network, lastSend, last, memo,
                   diagram_id, ops>>
    /\ UNCHANGED conf

Init ==
    /\ pc = "main"
    /\ health = "unsent"
    /\ ip = 0
    /\ agentNo = 0
    /\ agent = MCPGLSPAgent
    /\ call = NoCall
    /\ ret = NoRet
    /\ network = {}
    /\ sent = <<>>
    /\ lastSend = None
    /\ last = None
    /\ memo = None
    /\ diagram_id = <<>>
    /\ handler = "none"
    /\ ops = 0
    /\ conf = NoConf

Next ==
    \/ Main
    \/ HealthResponse
    \/ Call
    \/ InitializeResponse
    \/ InitializedResponse
    \/ MethodResponse
    \/ WorkflowReturn
    \/ PromptsReturn

Spec == Init /\ [][Next]_vars

\* The script under the assumption that the health check and every request
\* receive a response, and that the interpreter runs the next statement.
SpecLive == Init /\ [][Next]_vars /\ WF_vars(Next)

(***************************************************************************)
(* One MCPGLSPAgent under any caller: its public methods in any order,     *)
(* with any arguments, every exception caught by the caller.               *)
(***************************************************************************)
FreeTools == {"export_diagram"}
FreeArguments == {[diagramId |-> <<"d">>]}
FreeUris == {<<"diagram://model/", "d">>}
FreePrompts == {"analyze_diagram"}
FreePromptArguments == {None, Some(EmptyDict), Some([focus |-> "performance"])}

FreeCall ==
    /\ pc = "free"
    /\ call = NoCall /\ ret = NoRet
    /\ ops < MaxOps
    /\ ops' = ops + 1
    /\ \/ initialize
       \/ \E t \in FreeTools, a \in FreeArguments : call_tool(t, a)
       \/ \E u \in FreeUris : read_resource(u)
       \/ \E n \in FreePrompts, a \in FreePromptArguments : get_prompt(n, a)
    /\ UNCHANGED <<pc, health, ip, agentNo, memo, diagram_id, handler>>
    /\ UNCHANGED conf

\* The caller takes the value or catches the exception; memo keeps one
\* finished method of the run to compare the later ones with.
FreeReturn ==
    /\ pc = "free" /\ ret # NoRet
    /\ ret' = NoRet
    /\ last' = None
    /\ lastSend' = None
    /\ \/ memo' = memo
       \/ memo = None /\ last[1].op # "initialize" /\ memo' = last
    /\ UNCHANGED <<pc, health, ip, agentNo, agent, call, network, sent,
                   diagram_id, handler, ops>>
    /\ UNCHANGED conf

InitAgent ==
    /\ pc = "free"
    /\ health = "unsent"
    /\ ip = 0
    /\ agentNo = 1
    /\ agent = MCPGLSPAgent
    /\ call = NoCall
    /\ ret = NoRet
    /\ network = {}
    /\ sent = <<>>
    /\ lastSend = None
    /\ last = None
    /\ memo = None
    /\ diagram_id = <<>>
    /\ handler = "none"
    /\ ops = 0
    /\ conf = NoConf

NextAgent ==
    \/ FreeCall
    \/ InitializeResponse
    \/ InitializedResponse
    \/ MethodResponse
    \/ FreeReturn

SpecAgent == InitAgent /\ [][NextAgent]_vars

(***************************************************************************)
(* One agent whose caller also calls _send_request itself                  *)
(***************************************************************************)
DirectMethods == {"tools/list"}
DirectParams == {None, Some(EmptyDict), Some([cursor |-> "c"])}

\* _send_request(method, params) called from outside the class.
DirectCall ==
    /\ pc = "free"
    /\ call = NoCall /\ ret = NoRet
    /\ ops < MaxOps
    /\ ops' = ops + 1
    /\ \E m \in DirectMethods, p \in DirectParams :
        /\ _send_request(m, p, network, sent)
        /\ call' = [op |-> "_send_request", stage |-> 1,
                    args |-> [method |-> m, params |-> p],
                    init_before |-> agent.initialized]
    /\ UNCHANGED <<pc, health, ip, agentNo, ret, lastSend, last, memo,
                   diagram_id, handler>>
    /\ UNCHANGED conf

\* The POST of a direct _send_request ends.
DirectResponse ==
    /\ call.op = "_send_request"
    /\ \E req \in network : \E resp \in Responses(req.payload) :
        LET out == SendRequestResult(resp)
        IN  /\ req.verb = "POST"
            /\ lastSend' = Some([resp |-> resp, out |-> out])
            /\ network' = network \ {req}
            /\ sent' = Mark(sent, req, Outcome(out))
            /\ call' = NoCall
            /\ ret' = out
            /\ last' = Some(Finished(call, Some(resp), out))
            /\ UNCHANGED agent
    /\ UNCHANGED <<pc, health, ip, agentNo, memo, diagram_id, handler, ops>>
    /\ UNCHANGED conf

\* The caller takes the value or catches the exception.
SendReturn ==
    /\ pc = "free" /\ ret # NoRet
    /\ ret' = NoRet
    /\ last' = None
    /\ lastSend' = None
    /\ UNCHANGED <<pc, health, ip, agentNo, agent, call, network, sent, memo,
                   diagram_id, handler, ops>>
    /\ UNCHANGED conf

NextSend ==
    \/ DirectCall
    \/ DirectResponse
    \/ FreeCall
    \/ InitializeResponse
    \/ InitializedResponse
    \/ MethodResponse
    \/ SendReturn

SpecSend == InitAgent /\ [][NextSend]_vars

(***************************************************************************)
(* docs/source/conf.py: get_versions and the versions data. A Python       *)
(* string is the sequence of its characters.                               *)
(***************************************************************************)
main == <<"m", "a", "i", "n">>

DigitChars == <<"0", "1", "2", "3", "4", "5", "6", "7", "8", "9">>
Digits == {DigitChars[i] : i \in DOMAIN DigitChars}

\* int(x) of a string of digits.
RECURSIVE int(_)
int(x) ==
    IF x = <<>> THEN 0
    ELSE 10 * int(SubSeq(x, 1, Len(x) - 1))
         + (CHOOSE i \in DOMAIN DigitChars : DigitChars[i] = x[Len(x)]) - 1

\* s.split('.')
RECURSIVE split(_)
split(s) ==
    IF \E i \in 1..Len(s) : s[i] = "."
    THEN LET i == CHOOSE j \in 1..Len(s) :
                      s[j] = "." /\ \A h \in 1..(j - 1) : s[h] # "."
         IN  <<SubSeq(s, 1, i - 1)>> \o split(SubSeq(s, i + 1, Len(s)))
    ELSE <<s>>

\* re.match(r'^\d+\.\d+\.\d+$', tag), for a tag without a newline.
re_match(tag) ==
    LET groups == split(tag)
    IN  /\ Len(groups) = 3
        /\ \A g \in 1..3 :
               /\ groups[g] # <<>>
               /\ \A c \in 1..Len(groups[g]) : groups[g][c] \in Digits

\* The key of sorted(): the string itself for 'main', a list of ints otherwise.
key(v) ==
    IF v = main THEN [type |-> "str", str |-> v]
    ELSE [type |-> "list",
          list |-> [i \in 1..Len(split(v)) |-> int(split(v)[i])]]

\* a < b for two lists of ints.
RECURSIVE ListLess(_, _)
ListLess(a, b) ==
    IF b = <<>> THEN FALSE
    ELSE IF a = <<>> THEN TRUE
    ELSE IF Head(a) # Head(b) THEN Head(a) < Head(b)
    ELSE ListLess(Tail(a), Tail(b))

\* sorted(versions, key=...): no comparison is made for fewer than two
\* elements; a str key and a list key do not compare ('<' raises TypeError);
\* the sort is stable.
sorted(versions) ==
    LET n == Len(versions)
    IN  IF n < 2 THEN Return(versions)
        ELSE IF \E i, j \in 1..n : key(versions[i]).type # key(versions[j]).type
        THEN Raise("TypeError")
        ELSE IF \A i \in 1..n : key(versions[i]).type = "str"
        THEN Return(versions)
        ELSE LET before(i, j) ==
                     \/ ListLess(key(versions[i]).list, key(versions[j]).list)
                     \/ /\ ~ListLess(key(versions[j]).list, key(versions[i]).list)
                        /\ i < j
                 rank(i) == Cardinality({j \in 1..n : before(j, i)}) + 1
             IN  Return([r \in 1..n |->
                            versions[CHOOSE i \in 1..n : rank(i) = r]])

\* result.stdout.strip().split('\n'), stdout being the tag lines printed.
Lines(stdout) == IF stdout = <<>> THEN << <<>> >> ELSE stdout

\* As get_versions, without the test of the return code.
get_versions_any_code(git) ==
    sorted(<<main>> \o (IF git.kind = "exit"
                        THEN SelectSeq(Lines(git.stdout), re_match)
                        ELSE <<>>))

\* get_versions: git is what subprocess.run did, an exception or an exit with
\* a return code and the lines printed; an exception is caught and printed.
get_versions(git) ==
    sorted(<<main>> \o (IF git.kind = "exit" /\ git.returncode = 0
                        THEN SelectSeq(Lines(git.stdout), re_match)
                        ELSE <<>>))

\* os.environ.get(name, default)
os_environ_get(value, default) == IF value = None THEN default ELSE value[1]

\* What `git tag` may print: tags of the form x.y.z and others.
TagPool == {<<"1", ".", "0", ".", "0">>,
            <<"0", ".", "1", "0", ".", "0">>,
            <<"0", ".", "9", ".", "0">>,
            <<"v", "1", ".", "0", ".", "0">>,
            <<"1", ".", "0">>,
            <<"1", ".", "0", ".", "0", "-", "r", "c">>}

TagLists ==
    {l \in UNION {[1..n -> TagPool] : n \in 0..MaxTags} :
        \A i, j \in 1..Len(l) : i # j => l[i] # l[j]}

ReturnCodes == {0, 1, 128}

GitRuns ==
    {[kind |-> "raises"]}
    \cup {[kind |-> "exit", returncode |-> c, stdout |-> l] :
              c \in ReturnCodes, l \in TagLists}

DocsVersionEnv == {None, Some(<<"v", "0", ".", "1", ".", "0">>)}
PathPrefixEnv == {None, Some(<<"/", "d", "/">>)}

\* conf.py is evaluated up to the call of get_versions.
InitGetVersions ==
    /\ pc = "conf"
    /\ health = "unsent"
    /\ ip = 0
    /\ agentNo = 0
    /\ agent = MCPGLSPAgent
    /\ call = NoCall
    /\ ret = NoRet
    /\ network = {}
    /\ sent = <<>>
    /\ lastSend = None
    /\ last = None
    /\ memo = None
    /\ diagram_id = <<>>
    /\ handler = "none"
    /\ ops = 0
    /\ \E g \in GitRuns, d \in DocsVersionEnv, q \in PathPrefixEnv :
           conf = [stage |-> "get_versions", git |-> g,
                   current_version |-> os_environ_get(d, main),
                   version_path_prefix |-> os_environ_get(q, <<"/">>)]

\* versions = get_versions(); an exception ends the evaluation of conf.py.
GetVersions ==
    /\ pc = "conf" /\ conf.stage = "get_versions"
    /\ LET out == get_versions(conf.git)
       IN  conf' = [stage |-> IF out.kind = "return" THEN "versions" ELSE "failed",
                    git |-> conf.git,
                    current_version |-> conf.current_version,
                    version_path_prefix |-> conf.version_path_prefix,
                    out |-> out]
    /\ UNCHANGED <<pc, health, ip, agentNo, agent, call, ret, network, sent,
                   lastSend, last, memo, diagram_id, handler, ops>>

\* versions_data, as written to _static/versions.json.
VersionsData ==
    /\ pc = "conf" /\ conf.stage = "versions"
    /\ conf' = [stage |-> "versions_data",
                git |-> conf.git,
                current_version |-> conf.current_version,
                version_path_prefix |-> conf.version_path_prefix,
                out |-> conf.out,
                versions_data |->
                    [current_version |-> conf.current_version,
                     versions |-> conf.out.value,
                     version_path_prefix |-> conf.version_path_prefix]]
    /\ UNCHANGED <<pc, health, ip, agentNo, agent, call, ret, network, sent,
                   lastSend, last, memo, diagram_id, handler, ops>>

NextGetVersions ==
    \/ GetVersions
    \/ VersionsData

SpecGetVersions == InitGetVersions /\ [][NextGetVersions]_vars

(***************************************************************************)
(* docs/source/conf.py: the two assignments of html_context                *)
(***************************************************************************)
\* The entries both assignments of html_context hold.
GithubContext ==
    [display_github |-> TRUE, github_user |-> "glsp-rust",
     github_repo |-> "glsp-rust", github_version |-> "main",
     conf_py_path |-> "/docs/source/"]

\* html_context = {...}: the version data and the GitHub entries.
HtmlContextVersions ==
    /\ pc = "conf" /\ conf.stage = "versions_data"
    /\ conf' = [stage |-> "html_context",
                html_context |->
                    [current_version |-> conf.current_version,
                     versions |-> conf.out.value,
                     version_path_prefix |-> conf.version_path_prefix]
                    @@ GithubContext]
               @@ conf
    /\ UNCHANGED <<pc, health, ip, agentNo, agent, call, ret, network, sent,
                   lastSend, last, memo, diagram_id, handler, ops>>

\* html_context = {...} under "Configure version switcher": a new dict is
\* bound to the name, and the file assigns html_context no more.
HtmlContextGithub ==
    /\ pc = "conf" /\ conf.stage = "html_context"
    /\ conf' = [conf EXCEPT !.stage = "evaluated",
                            !.html_context = GithubContext]
    /\ UNCHANGED <<pc, health, ip, agentNo, agent, call, ret, network, sent,
                   lastSend, last, memo, diagram_id, handler, ops>>

NextConf ==
    \/ GetVersions
    \/ VersionsData
    \/ HtmlContextVersions
    \/ HtmlContextGithub

SpecConf == InitGetVersions /\ [][NextConf]_vars

(***************************************************************************)
(* docs/source/conf.py: REQ_RE and extract_reqs. A text is a sequence of   *)
(* tokens: the marker in two cases of letters, "REQ_" in two cases, and    *)
(* single characters.                                                      *)
(***************************************************************************)
Markers == {"SW-REQ-ID", "sw-req-id"}
ReqHeads == {"REQ_", "req_"}
Backslash == "\\"

\* The token at position i, or "" past the end of the text.
At(text, i) == IF i \in 1..Len(text) THEN text[i] ELSE ""

\* The first position from i on whose token is not in set: a greedy x*.
RECURSIVE Skip(_, _, _)
Skip(text, i, set) ==
    IF At(text, i) \in set THEN Skip(text, i + 1, set) ELSE i

\* A match of the pattern r"SW-REQ-ID\s*:\s*(REQ_\w+)" with single backslashes:
\* white space around the colon, word characters after REQ_.
REQ_RE_match_single_backslash(text, i) ==
    LET colon == Skip(text, i + 1, {" ", "\n"})
        head == Skip(text, colon + 1, {" ", "\n"})
        end == Skip(text, head + 1, {"1", "2", "s", "w", "W"})
    IN  IF /\ At(text, i) \in Markers
           /\ At(text, colon) = ":"
           /\ At(text, head) \in ReqHeads
           /\ end > head + 1
        THEN Some([group |-> SubSeq(text, head, end - 1), end |-> end])
        ELSE None

\* REQ_RE.match(text, i) for REQ_RE = re.compile(r"SW-REQ-ID\\s*:\\s*(REQ_\\w+)",
\* re.I): in the raw string each \\ is a pattern for one backslash character,
\* so s* and w+ are repetitions of the letters s and w, in either case.
REQ_RE_match(text, i) ==
    LET colon == Skip(text, i + 2, {"s", "S"})
        head == Skip(text, colon + 2, {"s", "S"})
        end == Skip(text, head + 2, {"w", "W"})
    IN  IF /\ At(text, i) \in Markers
           /\ At(text, i + 1) = Backslash
           /\ At(text, colon) = ":"
           /\ At(text, colon + 1) = Backslash
           /\ At(text, head) \in ReqHeads
           /\ At(text, head + 1) = Backslash
           /\ end > head + 2
        THEN Some([group |-> SubSeq(text, head, end - 1), end |-> end])
        ELSE None

\* REQ_RE.findall(text) from position i on: the groups of the matches found
\* from left to right, each search starting where the last match ended.
RECURSIVE REQ_RE_findall(_, _)
REQ_RE_findall(text, i) ==
    IF i > Len(text) THEN <<>>
    ELSE LET m == REQ_RE_match(text, i)
         IN  IF m = None THEN REQ_RE_findall(text, i + 1)
             ELSE <<m[1].group>> \o REQ_RE_findall(text, m[1].end)

\* The tokens an id is made of, in the order of their first characters.
IdTokens == <<"1", "2", "REQ_", "W", "\\", "req_", "s", "w">>
TokenRank(t) == CHOOSE k \in DOMAIN IdTokens : IdTokens[k] = t

\* a < b for two strings.
RECURSIVE StrLess(_, _)
StrLess(a, b) ==
    IF b = <<>> THEN FALSE
    ELSE IF a = <<>> THEN TRUE
    ELSE IF Head(a) # Head(b) THEN TokenRank(Head(a)) < TokenRank(Head(b))
    ELSE StrLess(Tail(a), Tail(b))

\* sorted(set(ids))
sorted_set(ids) ==
    LET set == {ids[k] : k \in 1..Len(ids)}
        rank(x) == Cardinality({y \in set : StrLess(y, x)}) + 1
    IN  [r \in 1..Cardinality(set) |-> CHOOSE x \in set : rank(x) = r]

\* ";".join(strings)
RECURSIVE join(_)
join(strings) ==
    IF strings = <<>> THEN <<>>
    ELSE IF Len(strings) = 1 THEN strings[1]
    ELSE strings[1] \o <<";">> \o join(Tail(strings))

\* extract_reqs: file is need.get("file"), None or a string; read is what
\* read_text does, the text or an exception.
extract_reqs(file, read) ==
    IF file = None \/ file[1] = <<>> THEN Return(<<>>)
    ELSE IF read.kind = "raise" THEN Return(<<>>)
    ELSE Return(join(sorted_set(REQ_RE_findall(read.value, 1))))

\* Lines a file may hold.
EntryPool == {<<"SW-REQ-ID", " ", ":", " ", "REQ_", "1">>,
              <<"SW-REQ-ID", ":", "REQ_", "2">>,
              <<"sw-req-id", " ", ":", " ", "REQ_", "1">>,
              <<"SW-REQ-ID", "\\", ":", "\\", "REQ_", "\\", "w">>,
              <<"sw-req-id", "\\", "s", "s", ":", "\\", "req_", "\\", "W", "w">>,
              <<"SW-REQ-ID", "\\", ":", "\\", "REQ_", "\\", "w", "w">>,
              <<"REQ_", "1">>}

\* The text of a file: its lines, each ended by a newline.
RECURSIVE Text(_)
Text(entries) ==
    IF entries = <<>> THEN <<>>
    ELSE entries[1] \o <<"\n">> \o Text(Tail(entries))

FileTexts == {Text(l) : l \in UNION {[1..n -> EntryPool] : n \in 0..MaxEntries}}

\* What read_text does: the text, or an exception.
Reads ==
    {Raise("FileNotFoundError"), Raise("PermissionError"),
     Raise("IsADirectoryError")}
    \cup {Return(t) : t \in FileTexts}

\* need.get("file"): no option, an empty one, a path.
NeedFiles == {None, Some(<<>>), Some(<<"src/lib.rs">>)}

\* sphinx-needs is about to call extract_reqs for a need.
InitExtractReqs ==
    /\ pc = "conf"
    /\ health = "unsent"
    /\ ip = 0
    /\ agentNo = 0
    /\ agent = MCPGLSPAgent
    /\ call = NoCall
    /\ ret = NoRet
    /\ network = {}
    /\ sent = <<>>
    /\ lastSend = None
    /\ last = None
    /\ memo = None
    /\ diagram_id = <<>>
    /\ handler = "none"
    /\ ops = 0
    /\ \E f \in NeedFiles, r \in Reads :
           conf = [stage |-> "extract_reqs", need_file |-> f, read |-> r]

\* The call of extract_reqs.
ExtractReqs ==
    /\ pc = "conf" /\ conf.stage = "extract_reqs"
    /\ conf' = [stage |-> "extracted", need_file |-> conf.need_file,
                read |-> conf.read,
                out |-> extract_reqs(conf.need_file, conf.read)]
    /\ UNCHANGED <<pc, health, ip, agentNo, agent, call, ret, network, sent,
                   lastSend, last, memo, diagram_id, handler, ops>>

NextExtractReqs == ExtractReqs

SpecExtractReqs == InitExtractReqs /\ [][NextExtractReqs]_vars

(***************************************************************************)
(* docs/source/conf.py and adas-wasm-components/docs/source/conf.py:       *)
(* release and version from DOCS_VERSION                                   *)
(***************************************************************************)
UpperCase == <<"A", "B", "C", "D", "E", "F", "G", "H", "I", "J", "K", "L", "M",
               "N", "O", "P", "Q", "R", "S", "T", "U", "V", "W", "X", "Y", "Z">>
LowerCase == <<"a", "b", "c", "d", "e", "f", "g", "h", "i", "j", "k", "l", "m",
               "n", "o", "p", "q", "r", "s", "t", "u", "v", "w", "x", "y", "z">>

\* s.lower()
lower(s) ==
    [i \in 1..Len(s) |->
        IF \E k \in DOMAIN UpperCase : UpperCase[k] = s[i]
        THEN LowerCase[CHOOSE k \in DOMAIN UpperCase : UpperCase[k] = s[i]]
        ELSE s[i]]

local == <<"l", "o", "c", "a", "l">>
dev == <<"d", "e", "v">>

\* As lstrip, with one leading 'v' removed: s.removeprefix('v').
removeprefix(s) == IF s # <<>> /\ Head(s) = "v" THEN Tail(s) ELSE s

\* s.lstrip('v')
RECURSIVE lstrip(_)
lstrip(s) == IF s # <<>> /\ Head(s) = "v" THEN lstrip(Tail(s)) ELSE s

\* The two assignments of the version block: release and version.
release_version(docs_build_env_version) ==
    IF lower(docs_build_env_version) \in {main, local}
    THEN [release |-> dev, version |-> dev]
    ELSE LET parsed_release == lstrip(docs_build_env_version)
             version_parts == split(parsed_release)
         IN  [release |-> parsed_release,
              version |-> IF Len(version_parts) >= 2
                          THEN version_parts[1] \o <<".">> \o version_parts[2]
                          ELSE parsed_release]

\* The two files that hold the version block.
ConfFiles == {"docs/source/conf.py",
              "workspace/adas-wasm-components/docs/source/conf.py"}

VersionChars == {"v", ".", "0", "1"}

\* Values of DOCS_VERSION: every string of VersionChars up to MaxVersionLen,
\* and some branch names and tags.
DocsVersions ==
    UNION {[1..n -> VersionChars] : n \in 0..MaxVersionLen}
    \cup {main, local, dev,
          <<"M", "a", "i", "n">>, <<"M", "A", "I", "N">>,
          <<"L", "O", "C", "A", "L">>, <<"l", "o", "c", "a", "l", "e">>,
          <<"m", "a", "i", "n", "v">>, <<"V", "1", ".", "0">>,
          <<"v", "0", ".", "1", ".", "0">>, <<"0", ".", "1", ".", "0">>,
          <<"v", "v", "0", ".", "1", ".", "0">>,
          <<"v", "1", ".", "2", ".", "3", ".", "4">>}

\* A conf.py is about to be evaluated; DOCS_VERSION is unset or set.
InitVersion ==
    /\ pc = "conf"
    /\ health = "unsent"
    /\ ip = 0
    /\ agentNo = 0
    /\ agent = MCPGLSPAgent
    /\ call = NoCall
    /\ ret = NoRet
    /\ network = {}
    /\ sent = <<>>
    /\ lastSend = None
    /\ last = None
    /\ memo = None
    /\ diagram_id = <<>>
    /\ handler = "none"
    /\ ops = 0
    /\ \E f \in ConfFiles, d \in {None} \cup {Some(v) : v \in DocsVersions} :
           conf = [stage |-> "version", file |-> f, DOCS_VERSION |-> d]

\* The version block of conf.py.
DeriveVersion ==
    /\ pc = "conf" /\ conf.stage = "version"
    /\ LET docs_build_env_version == os_environ_get(conf.DOCS_VERSION, main)
           rv == release_version(docs_build_env_version)
       IN  conf' = [stage |-> "derived", file |-> conf.file,
                    DOCS_VERSION |-> conf.DOCS_VERSION,
                    docs_build_env_version |-> docs_build_env_version,
                    release |-> rv.release, version |-> rv.version]
    /\ UNCHANGED <<pc, health, ip, agentNo, agent, call, ret, network, sent,
                   lastSend, last, memo, diagram_id, handler, ops>>

NextVersion == DeriveVersion

SpecVersion == InitVersion /\ [][NextVersion]_vars

(***************************************************************************)
(* docs/source/conf.py and adas-wasm-components/docs/source/conf.py:       *)
(* setup_plantuml                                                          *)
(***************************************************************************)
\* subprocess.run(['which', 'plantuml'], check=True, capture_output=True):
\* which is what running the command did; a return code other than 0 raises
\* CalledProcessError, a command that cannot be started raises an OSError.
subprocess_run_check(which) ==
    IF which.kind = "raises" THEN Raise(which.exc)
    ELSE IF which.returncode # 0 THEN Raise("CalledProcessError")
    ELSE Return("completed")

\* try: subprocess.run(...); return 'plantuml'
\* except subprocess.CalledProcessError: return fallback
plantuml_or(which, fallback) ==
    LET ran == subprocess_run_check(which)
    IN  IF ran.kind = "return" THEN Return("plantuml")
        ELSE IF ran.exc = "CalledProcessError" THEN Return(fallback)
        ELSE ran

setup_plantuml(system, which) ==
    IF system = "Windows" THEN Return("plantuml.bat")
    ELSE IF system = "Darwin"
    THEN plantuml_or(which, "java -jar /usr/local/bin/plantuml.jar")
    ELSE plantuml_or(which, "java -jar /usr/bin/plantuml.jar")

\* Values of platform.system(); "" when the system cannot be determined.
Systems == {"Windows", "Darwin", "Linux", "FreeBSD", "Java", ""}

\* What running `which plantuml` may do: exit with a code, or not start
\* because there is no `which` or it may not be executed.
WhichRuns ==
    {[kind |-> "exit", returncode |-> c] : c \in {0, 1, 2}}
    \cup {[kind |-> "raises", exc |-> e] :
              e \in {"FileNotFoundError", "PermissionError"}}

PlantumlFormatEnv == {None, Some("png")}

\* A conf.py is evaluated up to the definition of setup_plantuml.
InitPlantuml ==
    /\ pc = "conf"
    /\ health = "unsent"
    /\ ip = 0
    /\ agentNo = 0
    /\ agent = MCPGLSPAgent
    /\ call = NoCall
    /\ ret = NoRet
    /\ network = {}
    /\ sent = <<>>
    /\ lastSend = None
    /\ last = None
    /\ memo = None
    /\ diagram_id = <<>>
    /\ handler = "none"
    /\ ops = 0
    /\ \E f \in ConfFiles, y \in Systems, w \in WhichRuns, e \in PlantumlFormatEnv :
           conf = [stage |-> "setup_plantuml", file |-> f, system |-> y,
                   which |-> w, PLANTUML_FORMAT |-> e,
                   plantuml |-> "java -jar plantuml.jar",
                   plantuml_output_format |-> "svg"]

\* plantuml = setup_plantuml(); an exception ends the evaluation of conf.py.
SetupPlantuml ==
    /\ pc = "conf" /\ conf.stage = "setup_plantuml"
    /\ LET out == setup_plantuml(conf.system, conf.which)
       IN  conf' = [stage |-> IF out.kind = "return" THEN "plantuml" ELSE "failed",
                    out |-> out,
                    plantuml |-> IF out.kind = "return" THEN out.value
                                 ELSE conf.plantuml]
                   @@ conf
    /\ UNCHANGED <<pc, health, ip, agentNo, agent, call, ret, network, sent,
                   lastSend, last, memo, diagram_id, handler, ops>>

\* plantuml_output_format = os.environ.get('PLANTUML_FORMAT', 'svg')
PlantumlOutputFormat ==
    /\ pc = "conf" /\ conf.stage = "plantuml"
    /\ conf' = [conf EXCEPT !.stage = "plantuml_output_format",
                            !.plantuml_output_format =
                                os_environ_get(conf.PLANTUML_FORMAT, "svg")]
    /\ UNCHANGED <<pc, health, ip, agentNo, agent, call, ret, network, sent,
                   lastSend, last, memo, diagram_id, handler, ops>>

NextPlantuml ==
    \/ SetupPlantuml
    \/ PlantumlOutputFormat

SpecPlantuml == InitPlantuml /\ [][NextPlantuml]_vars

(***************************************************************************)
(* docs/source/conf.py and adas-wasm-components/docs/source/conf.py:       *)
(* needs_types, and the needs sphinx-needs makes of them                   *)
(***************************************************************************)
\* needs_types of docs/source/conf.py
docs_needs_types == <<
    [directive |-> "req", title |-> "Requirement",
     prefix |-> "REQ_", color |-> "#BFD5E7", style |-> "node"],
    [directive |-> "spec", title |-> "Specification",
     prefix |-> "SPEC_", color |-> "#FEDCD2", style |-> "node"],
    [directive |-> "impl", title |-> "Implementation",
     prefix |-> "IMPL_", color |-> "#DF744A", style |-> "node"],
    [directive |-> "test", title |-> "Test Case",
     prefix |-> "TEST_", color |-> "#DCB239", style |-> "node"],
    [directive |-> "arch", title |-> "Architecture",
     prefix |-> "ARCH_", color |-> "#8BC34A", style |-> "node"],
    [directive |-> "comp", title |-> "Component",
     prefix |-> "COMP_", color |-> "#4CAF50", style |-> "node"],
    [directive |-> "mcp_req", title |-> "MCP Requirement",
     prefix |-> "MCP_", color |-> "#FF9800", style |-> "node"],
    [directive |-> "wasm_req", title |-> "WASM Requirement",
     prefix |-> "WASM_", color |-> "#9C27B0", style |-> "node"],
    [directive |-> "ai_req", title |-> "AI Requirement",
     prefix |-> "AI_", color |-> "#E91E63", style |-> "node"],
    [directive |-> "db_req", title |-> "Database Requirement",
     prefix |-> "DB_", color |-> "#00BCD4", style |-> "node"],
    [directive |-> "sim_req", title |-> "Simulation Requirement",
     prefix |-> "SIM_", color |-> "#795548", style |-> "node"],
    [directive |-> "ui_req", title |-> "UI Requirement",
     prefix |-> "UI_", color |-> "#607D8B", style |-> "node"],
    [directive |-> "safety_req", title |-> "Safety Requirement",
     prefix |-> "SAFETY_", color |-> "#F44336", style |-> "node"],
    [directive |-> "arch_req", title |-> "Architecture Requirement",
     prefix |-> "ARCH_", color |-> "#2196F3", style |-> "node"],
    [directive |-> "arch_principle", title |-> "Architecture Principle",
     prefix |-> "PRINCIPLE_", color |-> "#3F51B5", style |-> "node"],
    [directive |-> "tech_stack", title |-> "Technology Stack",
     prefix |-> "TECH_", color |-> "#FF9800", style |-> "node"],
    [directive |-> "quality_attribute", title |-> "Quality Attribute",
     prefix |-> "QA_", color |-> "#4CAF50", style |-> "node"],
    [directive |-> "constraint", title |-> "Constraint",
     prefix |-> "CNST_", color |-> "#4682B4", style |-> "node"],
    [directive |-> "panic", title |-> "Panic",
     prefix |-> "PANIC_", color |-> "#E74C3C", style |-> "node"],
    [directive |-> "src", title |-> "Source File",
     prefix |-> "SRC_", color |-> "#C6C6FF", style |-> "node"],
    [directive |-> "arch_component", title |-> "Architectural Component",
     prefix |-> "ARCH_COMP_", color |-> "#FF6B6B", style |-> "node"],
    [directive |-> "arch_interface", title |-> "Interface",
     prefix |-> "ARCH_IF_", color |-> "#4ECDC4", style |-> "node"],
    [directive |-> "arch_decision", title |-> "Design Decision",
     prefix |-> "ARCH_DEC_", color |-> "#45B7D1", style |-> "node"],
    [directive |-> "arch_constraint", title |-> "Design Constraint",
     prefix |-> "ARCH_CON_", color |-> "#96CEB4", style |-> "node"],
    [directive |-> "arch_pattern", title |-> "Design Pattern",
     prefix |-> "ARCH_PAT_", color |-> "#FECA57", style |-> "node"] >>

\* needs_types of workspace/adas-wasm-components/docs/source/conf.py
adas_needs_types == <<
    [directive |-> "req", title |-> "Requirement",
     prefix |-> "REQ_", color |-> "#BFD5E7", style |-> "node"],
    [directive |-> "spec", title |-> "Specification",
     prefix |-> "SPEC_", color |-> "#FEDCD2", style |-> "node"],
    [directive |-> "impl", title |-> "Implementation",
     prefix |-> "IMPL_", color |-> "#DF744A", style |-> "node"],
    [directive |-> "test", title |-> "Test Case",
     prefix |-> "TEST_", color |-> "#DCB239", style |-> "node"],
    [directive |-> "safety_req", title |-> "Safety Requirement",
     prefix |-> "SAFETY_", color |-> "#F44336", style |-> "node"],
    [directive |-> "adas_req", title |-> "ADAS Requirement",
     prefix |-> "ADAS_REQ_", color |-> "#FF5722", style |-> "node"],
    [directive |-> "adas_comp", title |-> "ADAS Component",
     prefix |-> "ADAS_COMP_", color |-> "#FF9800", style |-> "node"],
    [directive |-> "adas_safety", title |-> "ADAS Safety Requirement",
     prefix |-> "ADAS_SAFETY_", color |-> "#F44336", style |-> "node"],
    [directive |-> "sensor_req", title |-> "Sensor Requirement",
     prefix |-> "SENSOR_", color |-> "#03A9F4", style |-> "node"],
    [directive |-> "ai_comp", title |-> "AI Component",
     prefix |-> "AI_COMP_", color |-> "#9C27B0", style |-> "node"],
    [directive |-> "fusion_comp", title |-> "Fusion Component",
     prefix |-> "FUSION_", color |-> "#4CAF50", style |-> "node"],
    [directive |-> "control_comp", title |-> "Control Component",
     prefix |-> "CONTROL_", color |-> "#2196F3", style |-> "node"],
    [directive |-> "system_comp", title |-> "System Component",
     prefix |-> "SYSTEM_", color |-> "#9E9E9E", style |-> "node"],
    [directive |-> "asil_req", title |-> "ASIL Requirement",
     prefix |-> "ASIL_", color |-> "#E91E63", style |-> "node"] >>

needs_types(file) ==
    IF file = "docs/source/conf.py" THEN docs_needs_types ELSE adas_needs_types

\* A conf.py is evaluated up to the list display of needs_types.
InitNeedsTypes ==
    /\ pc = "conf"
    /\ health = "unsent"
    /\ ip = 0
    /\ agentNo = 0
    /\ agent = MCPGLSPAgent
    /\ call = NoCall
    /\ ret = NoRet
    /\ network = {}
    /\ sent = <<>>
    /\ lastSend = None
    /\ last = None
    /\ memo = None
    /\ diagram_id = <<>>
    /\ handler = "none"
    /\ ops = 0
    /\ \E f \in ConfFiles :
           conf = [stage |-> "needs_types", file |-> f, needs_types |-> <<>>]

\* The list display is evaluated entry by entry, in the order written.
NeedsTypesEntry ==
    /\ pc = "conf" /\ conf.stage = "needs_types"
    /\ LET all == needs_types(conf.file)
           now == Append(conf.needs_types, all[Len(conf.needs_types) + 1])
       IN  conf' = [stage |-> IF Len(now) = Len(all) THEN "configured"
                              ELSE "needs_types",
                    file |-> conf.file, needs_types |-> now]
    /\ UNCHANGED <<pc, health, ip, agentNo, agent, call, ret, network, sent,
                   lastSend, last, memo, diagram_id, handler, ops>>

\* A document uses the directive of one of the types: the need made of it has
\* that type, and an id that starts with the prefix of the type.
NeedOfDirective ==
    /\ pc = "conf" /\ conf.stage = "configured"
    /\ \E k \in 1..Len(conf.needs_types) :
           conf' = [stage |-> "need", file |-> conf.file,
                    needs_types |-> conf.needs_types,
                    need |-> [type |-> conf.needs_types[k].directive,
                              prefix |-> conf.needs_types[k].prefix]]
    /\ UNCHANGED <<pc, health, ip, agentNo, agent, call, ret, network, sent,
                   lastSend, last, memo, diagram_id, handler, ops>>

\* The types the prefix of the need's id stands for.
TypesOfPrefix ==
    /\ pc = "conf" /\ conf.stage = "need"
    /\ conf' = [stage |-> "types", file |-> conf.file,
                needs_types |-> conf.needs_types, need |-> conf.need,
                types |-> {conf.needs_types[k].directive :
                              k \in {j \in 1..Len(conf.needs_types) :
                                        conf.needs_types[j].prefix = conf.need.prefix}}]
    /\ UNCHANGED <<pc, health, ip, agentNo, agent, call, ret, network, sent,
                   lastSend, last, memo, diagram_id, handler, ops>>

NextNeedsTypes ==
    \/ NeedsTypesEntry
    \/ NeedOfDirective
    \/ TypesOfPrefix

SpecNeedsTypes == InitNeedsTypes /\ [][NextNeedsTypes]_vars

(***************************************************************************)
(* Properties                                                              *)
(***************************************************************************)
Sent(r) == r.transport = "ok"
StatusNot200(r) == Sent(r) /\ r.status_code # 200
IsObject(r) == Sent(r) /\ r.body.kind = "object"
HasErrorKey(r) == IsObject(r) /\ "error" \in DOMAIN r.body.obj
ResultOrEmpty(r) ==
    IF "result" \in DOMAIN r.body.obj THEN r.body.obj.result ELSE EmptyResult

\* C1 as stated: _send_request raises exactly when the status is not 200 or the
\* decoded body has the key "error", and returns the body's "result" (or an
\* empty dict) in every other case.
C1_RaisesIffStatusOrError ==
    lastSend # None =>
        LET r == lastSend[1].resp
            o == lastSend[1].out
        IN  /\ (o.kind = "raise") <=> (StatusNot200(r) \/ HasErrorKey(r))
            /\ o.kind = "return" => o = Return(ResultOrEmpty(r))

\* C1 amended: _send_request raises exactly when the POST itself raises, the
\* status is not 200, the body is not a JSON object, or the object has the key
\* "error" (whatever its value); otherwise it returns "result" or an empty
\* dict; a status other than 200 raises whatever the body is.
C1_SendRequestOutcome ==
    lastSend # None =>
        LET r == lastSend[1].resp
            o == lastSend[1].out
        IN  /\ (o.kind = "raise") <=>
                   (~Sent(r) \/ StatusNot200(r) \/ ~IsObject(r) \/ HasErrorKey(r))
            /\ o.kind = "return" => o = Return(ResultOrEmpty(r))
            /\ StatusNot200(r) => o = Raise("HTTP")
            /\ (Sent(r) /\ ~StatusNot200(r) /\ HasErrorKey(r)) => o = Raise("MCP Error")

\* A 200 response whose body carries "error": null made _send_request raise.
C1_Witness ==
    /\ lastSend # None
    /\ Sent(lastSend[1].resp)
    /\ lastSend[1].resp.status_code = 200
    /\ HasErrorKey(lastSend[1].resp)
    /\ lastSend[1].resp.body.obj.error = "null"
    /\ "result" \in DOMAIN lastSend[1].resp.body.obj
    /\ lastSend[1].out.kind = "raise"

AgentRequests(a) == SelectSeq(sent, LAMBDA e : e.agent = a)

\* C2: the k-th request an agent sends carries id k, whatever became of the
\* earlier ones, and request_id counts the requests the agent has sent.
C2_RequestIds ==
    /\ \A a \in 1..agentNo :
           \A k \in 1..Len(AgentRequests(a)) : AgentRequests(a)[k].payload.id = k
    /\ agentNo > 0 => agent.request_id = Len(AgentRequests(agentNo))

\* A request that raised is followed by a later request of the same agent.
C2_Witness ==
    \E k \in 1..Len(sent) :
        /\ sent[k].outcome = "raised"
        /\ k < Len(sent)
        /\ sent[Len(sent)].agent = sent[k].agent
        /\ sent[Len(sent)].payload.id = k + 1

SameRequest(a, b) ==
    /\ a.url = b.url
    /\ a.payload.method = b.payload.method
    /\ a.payload.params = b.payload.params

\* C3: a request whose POST failed (transport exception, status other than
\* 200, error field, undecodable body) is never sent again, by either agent.
C3_NoRetry ==
    /\ \A i \in 1..Len(sent) : \A j \in 1..Len(sent) :
           (i < j /\ sent[i].outcome = "raised") => ~SameRequest(sent[i], sent[j])
    /\ agentNo > 0 => Len(AgentRequests(agentNo)) = agent.request_id

\* A prompts/get of the loop raised and the script has sent a later request.
C3_Witness ==
    \E i \in 1..Len(sent) :
        /\ sent[i].outcome = "raised"
        /\ sent[i].payload.method = "prompts/get"
        /\ i < Len(sent)

GuardedOps == {"call_tool", "read_resource", "get_prompt"}

SameCall(a, b) == a.op = b.op /\ a.args = b.args

\* What a finished call did: whether it sent a request, and how it ended.
SameOutcome(a, b) ==
    /\ a.posted = b.posted
    /\ (a.posted /\ a.resp = b.resp) => a.out = b.out
    /\ ~a.posted => a.out = b.out

\* C4 as stated: the same call of call_tool, read_resource or get_prompt, given
\* the same server response, ends the same way whatever was done with the
\* agent before.
C4_Stateless ==
    (memo # None /\ last # None /\ last[1].op \in GuardedOps
        /\ SameCall(memo[1], last[1]))
    => SameOutcome(memo[1], last[1])

\* C4 amended: the same call, given the same server response, ends the same way
\* whenever the agent's initialized flag is the same: the flag is the only state
\* of the agent that an earlier operation leaves to a later one's outcome.
C4_StateIsInitialized ==
    (memo # None /\ last # None /\ last[1].op \in GuardedOps
        /\ SameCall(memo[1], last[1])
        /\ memo[1].init_before = last[1].init_before)
    => SameOutcome(memo[1], last[1])

\* Two equal calls on an initialized agent got the same response.
C4_Witness ==
    /\ memo # None /\ last # None
    /\ last[1].op \in GuardedOps
    /\ SameCall(memo[1], last[1])
    /\ memo[1].init_before /\ last[1].init_before
    /\ memo[1].posted /\ last[1].posted
    /\ memo[1].resp = last[1].resp

\* C5 as stated: at most one request is outstanding, and a request is sent
\* only after the previous one was answered and accepted.
C5_OneAtATimeAccepted ==
    /\ Cardinality(network) <= 1
    /\ sent # <<>> => health = "200"
    /\ \A k \in 1..(Len(sent) - 1) : sent[k].outcome = "ok"

\* The prompts/get requests of the loop of demonstrate_ai_prompts (the second
\* agent of a run).
InLoop(e) == e.agent = 2 /\ e.payload.method = "prompts/get"

\* C5 amended: at most one request is outstanding, and a request is sent only
\* after the previous one has ended (answered, or its POST raised); the previous
\* one was accepted, except that the loop of demonstrate_ai_prompts sends its
\* next prompts/get also after a prompts/get that failed.
C5_OneAtATime ==
    /\ Cardinality(network) <= 1
    /\ sent # <<>> => health = "200"
    /\ \A k \in 1..(Len(sent) - 1) :
           \/ sent[k].outcome = "ok"
           \/ /\ sent[k].outcome \in {"raised", "rejected"}
              /\ InLoop(sent[k]) /\ InLoop(sent[k + 1])

\* The loop has sent a prompts/get after one that raised and one whose result
\* it could not use.
C5_Witness ==
    /\ \E k \in 1..(Len(sent) - 2) :
           /\ InLoop(sent[k]) /\ sent[k].outcome = "raised"
           /\ InLoop(sent[k + 1]) /\ sent[k + 1].outcome = "rejected"
           /\ InLoop(sent[k + 2]) /\ sent[k + 2].outcome = "outstanding"
    /\ Cardinality(network) = 1

\* An exception is about to leave the try block of the main block.
Leaving ==
    /\ ret # NoRet
    /\ \/ pc = "workflow"
       \/ pc = "prompts" /\ Program[ip].op = "initialize"
    /\ \/ ret.kind = "raise"
       \/ ret.kind = "return" /\ Use(ret.value, Program[ip].reads) # "none"

Methods == {"initialize", "initialized", "tools/call", "resources/read", "prompts/get"}
ToolNames == {"create_diagram", "create_node", "apply_layout", "export_diagram"}
UriHeads == {"diagram://model/", "diagram://validation/"}

\* C7: every request of a run goes by POST to http://127.0.0.1:3000/mcp/rpc
\* with one of the five methods, tools/call names one of the four tools, and
\* resources/read names diagram://model/{id} or diagram://validation/{id}.
C7_Interface ==
    \A k \in 1..Len(sent) :
        LET e == sent[k]
        IN  /\ e.verb = "POST"
            /\ e.url = <<"http://127.0.0.1:3000", "/mcp/rpc">>
            /\ e.payload.method \in Methods
            /\ e.payload.method = "tools/call" => e.payload.params.name \in ToolNames
            /\ e.payload.method = "resources/read" =>
                   /\ Len(e.payload.params.uri) >= 1
                   /\ Head(e.payload.params.uri) \in UriHeads
                   /\ Tail(e.payload.params.uri) = diagram_id

\* A run that has sent every kind of request, the last by the second agent.
C7_Witness ==
    /\ \A m \in Methods : \E k \in 1..Len(sent) : sent[k].payload.method = m
    /\ \A t \in ToolNames : \E k \in 1..Len(sent) :
           sent[k].payload.method = "tools/call" /\ sent[k].payload.params.name = t
    /\ \A h \in UriHeads : \E k \in 1..Len(sent) :
           /\ sent[k].payload.method = "resources/read"
           /\ Head(sent[k].payload.params.uri) = h
    /\ sent[Len(sent)].agent = 2
    /\ diagram_id # <<>>

\* C8: call_tool, read_resource or get_prompt invoked while initialized is
\* false raises "Agent not initialized", sends nothing and leaves request_id
\* and initialized as they were.
C8_NotInitialized ==
    [][(pc = "free" /\ ops' = ops + 1 /\ ~agent.initialized
            /\ call'.op # "initialize")
        => /\ ret' = Raise("Agent not initialized")
           /\ call' = NoCall
           /\ sent' = sent
           /\ network' = network
           /\ agent' = agent
           /\ last' # None /\ last'[1].op \in GuardedOps /\ ~last'[1].posted]_vars

\* get_prompt raised "Agent not initialized" on an agent whose initialize()
\* had failed before.
C8_Witness ==
    /\ last # None
    /\ last[1].op = "get_prompt"
    /\ ~last[1].posted
    /\ ret = Raise("Agent not initialized")
    /\ agent.request_id = 1
    /\ Len(sent) = 1

Successful(r) == Sent(r) /\ r.status_code = 200 /\ IsObject(r) /\ ~HasErrorKey(r)

\* C9: initialized is true only after an "initialize" and then an "initialized"
\* request of the agent were both answered successfully; a failure of either,
\* or an initialize result without serverInfo name and version, makes
\* initialize() raise and leaves the flag as it was; once true it stays true.
C9_Initialized ==
    /\ [](agent.initialized =>
              \E i \in 1..(Len(sent) - 1) :
                  /\ sent[i].payload.method = "initialize" /\ sent[i].outcome = "ok"
                  /\ sent[i + 1].payload.method = "initialized"
                  /\ sent[i + 1].outcome = "ok")
    /\ [][/\ (~agent.initialized /\ agent'.initialized) =>
                 /\ call.op = "initialize" /\ call.stage = 2
                 /\ Successful(lastSend'[1].resp)
                 /\ sent[Len(sent)].payload.method = "initialized"
                 /\ sent[Len(sent) - 1].payload.method = "initialize"
                 /\ sent'[Len(sent) - 1].outcome = "ok"
          /\ (call.op = "initialize" /\ call' # call
                  /\ \/ ~Successful(lastSend'[1].resp)
                     \/ /\ call.stage = 1
                        /\ ResultOrEmpty(lastSend'[1].resp).shape # "serverInfo")
                 => /\ ret'.kind = "raise"
                    /\ call' = NoCall
                    /\ agent'.initialized = agent.initialized
          /\ agent.initialized => agent'.initialized]_vars

\* The agent is initialized after a first initialize() that failed.
C9_Witness ==
    /\ agent.initialized
    /\ Len(sent) = 3
    /\ sent[1].outcome = "raised"

Phase(e) ==
    LET m == e.payload.method
        p == e.payload.params
    IN  CASE m = "initialize" -> 1
          [] m = "initialized" -> 2
          [] m = "tools/call" /\ p.name = "create_diagram" -> 3
          [] m = "tools/call" /\ p.name = "create_node" -> 4
          [] m = "tools/call" /\ p.name = "apply_layout" -> 5
          [] m = "resources/read" /\ Head(p.uri) = "diagram://model/" -> 6
          [] m = "resources/read" /\ Head(p.uri) = "diagram://validation/" -> 7
          [] m = "prompts/get" /\ p.name = "analyze_diagram" -> 8
          [] m = "tools/call" /\ p.name = "export_diagram" -> 9
          [] OTHER -> 0

\* C10: the requests of demonstrate_ai_workflow (the first agent of a run) go
\* out in the order initialize, initialized, create_diagram, the create_node
\* requests, apply_layout, the model resource, the validation resource, the
\* analyze_diagram prompt, export_diagram, each after all earlier ones succeeded.
C10_WorkflowOrder ==
    LET w == AgentRequests(1)
    IN  /\ w # <<>> => Phase(w[1]) = 1
        /\ \A k \in 1..(Len(w) - 1) :
               /\ w[k].outcome = "ok"
               /\ \/ Phase(w[k + 1]) = Phase(w[k]) + 1
                  \/ Phase(w[k]) = 4 /\ Phase(w[k + 1]) = 4

\* The workflow has sent all its requests and export_diagram succeeded.
C10_Witness ==
    LET w == AgentRequests(1)
    IN  /\ w # <<>>
        /\ Phase(w[Len(w)]) = 9
        /\ w[Len(w)].outcome = "ok"
        /\ \E k \in 1..Len(w) : Phase(w[k]) = 4

Failed(e) == e.outcome \in {"raised", "rejected"}

\* C11: a request of demonstrate_ai_workflow that failed (it raised, or its
\* result lacks what the script reads) is the last request of the run: the
\* workflow sends nothing after it and demonstrate_ai_prompts never starts.
C11_WorkflowStops ==
    LET w == AgentRequests(1)
    IN  \A k \in 1..Len(w) :
            Failed(w[k]) => /\ k = Len(w)
                            /\ Len(sent) = Len(w)
                            /\ agentNo = 1
                            /\ pc \in {"workflow", "end"}

\* The run ended after create_diagram returned a result without content.
C11_Witness ==
    /\ pc = "end"
    /\ handler = "Exception"
    /\ Len(sent) = 3
    /\ sent[3].payload.params.name = "create_diagram"
    /\ sent[3].outcome = "rejected"
    /\ agentNo = 1

\* C12: requests are POSTed to /mcp/rpc only after GET /health returned 200;
\* when it returns another status or raises, no demo function runs, no agent
\* is made and nothing is POSTed.
C12_HealthFirst ==
    /\ sent # <<>> => health = "200"
    /\ agentNo > 0 => health = "200"
    /\ health \in {"unsent", "outstanding"} =>
           pc \in {"main", "health"} /\ call = NoCall
    /\ health \in {"not200", "raised"} =>
           /\ pc = "end"
           /\ sent = <<>> /\ network = {}
           /\ agentNo = 0 /\ call = NoCall
    /\ health = "not200" => handler = "none"

\* The health check returned 503 and the script ended without a request.
C12_Witness ==
    /\ health = "not200"
    /\ pc = "end"
    /\ sent = <<>>

\* The prompts of prompts_to_demo, in the order of the list.
PromptNames == <<"generate_workflow", "add_error_handling", "convert_diagram">>

\* The names of the prompts/get requests of the loop, in the order sent.
LoopNames ==
    LET l == SelectSeq(sent, InLoop)
    IN  [k \in 1..Len(l) |-> l[k].payload.params.name]

\* initialize() of demonstrate_ai_prompts returned: both its requests were
\* answered and accepted.
PromptsInitialized ==
    /\ agentNo = 2
    /\ Len(AgentRequests(2)) >= 2
    /\ AgentRequests(2)[1].outcome = "ok"
    /\ AgentRequests(2)[2].outcome = "ok"

\* C13: the loop of demonstrate_ai_prompts sends one prompts/get per prompt in
\* the order of the list; once initialize() succeeded the function ends only
\* after all three were sent, whatever the outcomes of the earlier ones, and
\* no exception of the loop reaches the main block; when initialize() failed
\* no prompts/get is sent.
C13_PromptsLoop ==
    /\ Len(LoopNames) <= Len(PromptNames)
    /\ \A k \in 1..Len(LoopNames) : LoopNames[k] = PromptNames[k]
    /\ (pc = "end" /\ PromptsInitialized) =>
           (LoopNames = PromptNames /\ handler = "none")
    /\ (agentNo = 2 /\ ~PromptsInitialized) => LoopNames = <<>>
    /\ (agentNo = 2 /\ pc = "end" /\ ~PromptsInitialized) => handler # "none"

\* The function ended after a prompts/get that raised, one with a result the
\* script could not use and one that succeeded.
C13_Witness ==
    /\ pc = "end"
    /\ PromptsInitialized
    /\ LET l == SelectSeq(sent, InLoop)
       IN  /\ Len(l) = 3
           /\ l[1].outcome = "raised"
           /\ l[2].outcome = "rejected"
           /\ l[3].outcome = "ok"

\* The number of process elements the final summary of demonstrate_ai_workflow
\* announces.
AnnouncedElements == 7

\* The create_node requests of demonstrate_ai_workflow.
CreateNodeRequests ==
    {k \in 1..Len(sent) : /\ sent[k].agent = 1
                          /\ sent[k].payload.method = "tools/call"
                          /\ sent[k].payload.params.name = "create_node"}

\* demonstrate_ai_workflow ran to its final summary.
WorkflowComplete == agentNo = 2

\* C14: a complete run of demonstrate_ai_workflow has issued as many
\* create_node calls as its final summary announces.
C14_SevenElements ==
    WorkflowComplete => Cardinality(CreateNodeRequests) = AnnouncedElements

\* The part of a text after its last occurrence of "ID: ", or the whole text
\* when "ID: " does not occur in it.
AfterLastId(text) ==
    LET occ == {i \in 1..Len(text) : text[i] = "ID: "}
    IN  IF occ = {} THEN text
        ELSE LET m == CHOOSE i \in occ : \A j \in occ : j <= i
             IN  [k \in 1..(Len(text) - m) |-> text[m + k]]

\* The text of the first content entry of a call_tool result.
ResponseText(value) == value.text

\* The statements after create_diagram are about to take the id out of the
\* response text.
Extracting ==
    /\ pc = "workflow" /\ ret # NoRet
    /\ ret.kind = "return"
    /\ Program[ip].reads = "content"
    /\ Use(ret.value, "content") = "none"

\* The diagram id a request of demonstrate_ai_workflow carries, if it has one.
CarriedId(e) ==
    LET m == e.payload.method
        p == e.payload.params
    IN  CASE m = "tools/call" /\ p.name # "create_diagram" ->
                 Some(p.arguments.diagramId)
          [] m = "resources/read" -> Some(Tail(p.uri))
          [] m = "prompts/get" -> Some(p.arguments.diagram_id)
          [] OTHER -> None

\* C15: the id taken from the create_diagram response text is what follows the
\* last "ID: " in it, or the whole text without "ID: "; it is set only there,
\* and every later request of demonstrate_ai_workflow carries that value.
C15_DiagramId ==
    /\ [](\A k \in 1..Len(sent) :
              (sent[k].agent = 1 /\ CarriedId(sent[k]) # None)
                  => (k > 3 /\ CarriedId(sent[k]) = Some(diagram_id)))
    /\ [][/\ Extracting => diagram_id' = AfterLastId(ResponseText(ret.value))
          /\ diagram_id' # diagram_id => Extracting]_vars

\* create_node was sent with the id "d" taken from the response text "ID: d".
C15_Witness ==
    /\ Len(sent) = 4
    /\ sent[4].outcome = "outstanding"
    /\ CarriedId(sent[4]) = Some(<<"d">>)
    /\ diagram_id = <<"d">>
    /\ lastSend # None
    /\ lastSend[1].resp.body.obj.result.text = <<"ID: ", "d">>

\* The requests of a run in which nothing fails: one per call of the two demo
\* functions, and one more for each initialize().
RequestBound == Len(demonstrate_ai_workflow(<<>>)) + Len(demonstrate_ai_prompts) + 2

\* C16: when every request is answered the script reaches the end of the main
\* block, with nothing outstanding and nothing left to run, after a bounded
\* number of requests, whatever the answers are.
C16_Terminates ==
    /\ <>(pc = "end")
    /\ [](Len(sent) <= RequestBound)
    /\ [](pc = "end" => (network = {} /\ call = NoCall /\ ret = NoRet))
    /\ [][pc # "end"]_vars

\* The script is at its end after a run with the greatest number of requests.
C16_Witness ==
    /\ pc = "end"
    /\ Len(sent) = RequestBound
    /\ \E k \in 1..Len(sent) : sent[k].outcome = "raised"

\* A method of the agent, or _send_request itself, has just sent a request.
Sends == Len(sent') = Len(sent) + 1

\* C17: a payload has "params" exactly when _send_request was given params
\* other than None (the empty dict of "initialized" is included); the params
\* of get_prompt have "arguments" exactly when arguments is a non-empty dict;
\* every payload carries jsonrpc "2.0", the method and the id.
C17_PayloadMembers ==
    /\ [](\A k \in 1..Len(sent) :
            LET p == sent[k].payload
            IN  /\ {"jsonrpc", "method", "id"} \subseteq DOMAIN p
                /\ DOMAIN p \subseteq {"jsonrpc", "method", "id", "params"}
                /\ p.jsonrpc = "2.0"
                /\ p.method = "initialized" =>
                       ("params" \in DOMAIN p /\ p.params = EmptyDict))
    /\ [][Sends =>
            LET p == sent'[Len(sent')].payload
                a == call'.args
            IN  /\ p.id = agent'.request_id
                /\ call'.op = "_send_request" =>
                       /\ p.method = a.method
                       /\ "params" \in DOMAIN p <=> a.params # None
                       /\ a.params # None => p.params = a.params[1]
                /\ call'.op = "get_prompt" =>
                       /\ p.method = "prompts/get"
                       /\ "params" \in DOMAIN p
                       /\ p.params.name = a.name
                       /\ "arguments" \in DOMAIN p.params <=>
                              (a.arguments # None /\ a.arguments[1] # EmptyDict)
                       /\ "arguments" \in DOMAIN p.params =>
                              p.params.arguments = a.arguments[1]]_vars

\* The agent has sent "initialized" with its empty params, a get_prompt that
\* was given {} and a direct request without params.
C17_Witness ==
    /\ Len(sent) = 4
    /\ sent[2].payload.method = "initialized"
    /\ sent[2].payload.params = EmptyDict
    /\ sent[3].payload.method = "prompts/get"
    /\ "arguments" \notin DOMAIN sent[3].payload.params
    /\ sent[4].payload.method \in DirectMethods
    /\ "params" \notin DOMAIN sent[4].payload

\* The tags of the form x.y.z among those `git tag` printed.
SemverTags(git) ==
    {git.stdout[i] : i \in {j \in 1..Len(git.stdout) : re_match(git.stdout[j])}}

\* The numeric components of a tag x.y.z.
Components(v) == [i \in 1..3 |-> int(split(v)[i])]

\* C18: for the tags a successful `git tag` printed, get_versions returns,
\* without raising, a list holding 'main' and each tag of the form x.y.z once
\* and nothing else, the tags in the order of their numeric components.
C18_SortedVersions ==
    (conf.stage \in {"versions", "failed", "versions_data"}
        /\ conf.git.kind = "exit" /\ conf.git.returncode = 0)
    => /\ conf.out.kind = "return"
       /\ LET l == conf.out.value
          IN  /\ {l[i] : i \in 1..Len(l)} = {main} \cup SemverTags(conf.git)
              /\ Len(l) = 1 + Cardinality(SemverTags(conf.git))
              /\ \A i, j \in 1..Len(l) :
                     (i < j /\ l[i] # main /\ l[j] # main)
                         => ~ListLess(Components(l[j]), Components(l[i]))

\* `git tag` failed: subprocess.run raised, or the return code is not 0.
GitFailed(git) == git.kind = "raises" \/ git.returncode # 0

\* C19: when `git tag` raised or returned a non-zero code, get_versions
\* returns ['main'], whatever was printed, and conf.py goes on to the versions
\* data with that list.
C19_GitFailure ==
    /\ [](/\ (conf.stage # "get_versions" /\ GitFailed(conf.git)) =>
                 (conf.out = Return(<<main>>) /\ conf.stage # "failed")
          /\ (conf.stage = "versions_data" /\ GitFailed(conf.git)) =>
                 conf.versions_data.versions = <<main>>)
    /\ [][(conf.stage = "get_versions" /\ GitFailed(conf.git))
              => conf'.stage = "versions"]_vars

\* `git tag` ended with code 128 after printing the tag 1.0.0, and the
\* versions data hold ['main'].
C19_Witness ==
    /\ conf.stage = "versions_data"
    /\ conf.git.kind = "exit"
    /\ conf.git.returncode = 128
    /\ conf.git.stdout = << <<"1", ".", "0", ".", "0">> >>
    /\ conf.versions_data.versions = <<main>>

\* s equals 'main' or 'local' but for the case of its letters.
MainOrLocal(s) ==
    \E w \in {main, local} :
        /\ Len(s) = Len(w)
        /\ \A i \in 1..Len(w) :
               \E k \in DOMAIN LowerCase :
                   LowerCase[k] = w[i] /\ s[i] \in {LowerCase[k], UpperCase[k]}

\* s without its first character when that is 'v'.
WithoutOneV(s) ==
    IF Len(s) > 0 /\ s[1] = "v" THEN [i \in 1..(Len(s) - 1) |-> s[i + 1]] ELSE s

\* s without all the 'v' it starts with.
WithoutLeadingVs(s) ==
    LET n == CHOOSE k \in 0..Len(s) :
                 /\ \A i \in 1..k : s[i] = "v"
                 /\ k < Len(s) => s[k + 1] # "v"
    IN  [i \in 1..(Len(s) - n) |-> s[n + i]]

\* The first two dot-separated components of r joined by '.': r up to its
\* second dot, or r itself when it has fewer than two dots.
FirstTwoComponents(r) ==
    LET dots == {i \in 1..Len(r) : r[i] = "."}
    IN  IF Cardinality(dots) < 2 THEN r
        ELSE LET d == CHOOSE i \in dots :
                          Cardinality({j \in dots : j < i}) = 1
             IN  [i \in 1..(d - 1) |-> r[i]]

\* What the claim gives for a DOCS_VERSION, stripped being how the leading 'v'
\* is removed.
Derived(stripped(_)) ==
    LET d == IF conf.DOCS_VERSION = None THEN main ELSE conf.DOCS_VERSION[1]
    IN  IF MainOrLocal(d)
        THEN conf.release = dev /\ conf.version = dev
        ELSE /\ conf.release = stripped(d)
             /\ conf.version = FirstTwoComponents(conf.release)

\* C20 as stated: release is DOCS_VERSION without its leading 'v', one
\* character.
C20_OneLeadingV == conf.stage = "derived" => Derived(WithoutOneV)

\* C20 amended: release is DOCS_VERSION without all the 'v' characters it
\* starts with ("vv0.1.0" gives "0.1.0", "v" gives ""); 'main' and 'local' in
\* any case give 'dev' for both; version is release up to its second dot.
C20_VersionDerivation == conf.stage = "derived" => Derived(WithoutLeadingVs)

\* "v0.1.0" gave release "0.1.0" and version "0.1" in the adas conf.py.
C20_Witness ==
    /\ conf.stage = "derived"
    /\ conf.file = "workspace/adas-wasm-components/docs/source/conf.py"
    /\ conf.DOCS_VERSION = Some(<<"v", "0", ".", "1", ".", "0">>)
    /\ conf.release = <<"0", ".", "1", ".", "0">>
    /\ conf.version = <<"0", ".", "1">>

\* C21: once conf.py is evaluated, html_context has the keys current_version,
\* versions and version_path_prefix, with the values computed earlier in the
\* file.
C21_HtmlContextVersions ==
    conf.stage = "evaluated" =>
        /\ {"current_version", "versions", "version_path_prefix"}
               \subseteq DOMAIN conf.html_context
        /\ conf.html_context.current_version = conf.current_version
        /\ conf.html_context.versions = conf.out.value
        /\ conf.html_context.version_path_prefix = conf.version_path_prefix

\* The ids REQ_xxx that follow a marker "SW-REQ-ID : " in a text, white space
\* around the colon being optional, from position i on.
RECURSIVE MarkedIds(_, _)
MarkedIds(text, i) ==
    IF i > Len(text) THEN <<>>
    ELSE LET m == REQ_RE_match_single_backslash(text, i)
         IN  IF m = None THEN MarkedIds(text, i + 1)
             ELSE <<m[1].group>> \o MarkedIds(text, m[1].end)

\* The need names a file and the file was read.
FileRead == /\ conf.need_file # None
            /\ conf.need_file[1] # <<>>
            /\ conf.read.kind = "return"

\* C22: extract_reqs returns, without raising, the ids REQ_xxx that follow a
\* marker "SW-REQ-ID : " in the file of the need (any white space around the
\* colon, any case), each once, sorted and joined by ';', and the empty string
\* when the need has no file or the file cannot be read.
C22_ExtractReqs ==
    conf.stage = "extracted" =>
        /\ conf.out.kind = "return"
        /\ FileRead => conf.out.value = join(sorted_set(MarkedIds(conf.read.value, 1)))
        /\ ~FileRead => conf.out.value = <<>>

\* `which plantuml` succeeded: it ran and its return code is 0.
WhichSucceeded(which) == which.kind = "exit" /\ which.returncode = 0

\* The command the claim gives for a system and an outcome of `which`.
PlantumlCommand(system, which) ==
    IF system = "Windows" THEN "plantuml.bat"
    ELSE IF WhichSucceeded(which) THEN "plantuml"
    ELSE IF system = "Darwin" THEN "java -jar /usr/local/bin/plantuml.jar"
    ELSE "java -jar /usr/bin/plantuml.jar"

\* C23: on every platform setup_plantuml returns a command, 'plantuml.bat' on
\* Windows, 'plantuml' when `which plantuml` succeeds and the jar of the
\* platform when it fails, and plantuml is assigned that result.
C23_PlantumlCommand ==
    conf.stage # "setup_plantuml" =>
        /\ conf.out = Return(PlantumlCommand(conf.system, conf.which))
        /\ conf.plantuml = PlantumlCommand(conf.system, conf.which)

\* C24: the entries of needs_types of either conf.py have pairwise distinct
\* prefixes, and the prefix of a need's id stands for the type of the need and
\* no other.
C24_DistinctPrefixes ==
    /\ \A i, j \in 1..Len(conf.needs_types) :
           i # j => conf.needs_types[i].prefix # conf.needs_types[j].prefix
    /\ conf.stage = "types" => conf.types = {conf.need.type}

====
